---- MODULE Spec2Model ----
(***************************************************************************)
(* Verification model of the self-defense-strategy toolkit: the three      *)
(* hash-chained ledgers (EvidenceLogger, EvidenceChain, ZelenskyChain)     *)
(* and the incident record stores built beside them.                       *)
(*                                                                         *)
(* Modelling conventions                                                   *)
(*  - A text string whose characters matter (a description, a mapping      *)
(*    key) is a sequence of character codes; the decimal digits 0..9 stand *)
(*    for themselves and letters have codes above 9.                       *)
(*  - SHA-256 is idealised as collision free: a digest is the tagged       *)
(*    preimage <<"sha", preimage>>.  The preimage is what the code feeds   *)
(*    to the hash function, field by field.                                *)
(*  - A line of a chain file is what json.loads makes of it: a record      *)
(*    mapping ("rec"), something that decodes to a non-mapping ("nonmap"), *)
(*    something that does not decode ("garbage"), or a blank line.         *)
(***************************************************************************)
EXTENDS Integers, Sequences, FiniteSets, TLC

\* ------------------------------------------------------------------ bounds

\* Most entries a behaviour appends to one chain file.
MaxLen == 3

\* ------------------------------------------------------------ text helpers

\* Character codes of the letters used in descriptions and keys.
ChA == 10 + 1
ChB == 10 + 2

Chars == {ChA, ChB}

RECURSIVE Digits(_)
\* str(n) for n >= 0, as its sequence of decimal digits.
Digits(n) == IF n < 10 THEN <<n>> ELSE Digits(n \div 10) \o <<n % 10>>

RECURSIVE StrLess(_, _)
\* s < t for two strings: Python compares strings lexicographically.
StrLess(s, t) ==
    IF t = <<>> THEN FALSE
    ELSE IF s = <<>> THEN TRUE
    ELSE IF Head(s) # Head(t) THEN Head(s) < Head(t)
    ELSE StrLess(Tail(s), Tail(t))

\* ------------------------------------------------- data payloads and JSON

\* A mapping key as the caller holds it: an int or a str.
IntKey(n) == [t |-> "int", n |-> n, s |-> <<>>]
StrKey(s) == [t |-> "str", n |-> 0, s |-> s]

\* key1 < key2 as sorted() orders the items of one mapping (keys of one type).
KeyLess(k1, k2) ==
    IF k1.t = "int" THEN k1.n < k2.n ELSE StrLess(k1.s, k2.s)

\* The key as json.dumps writes it: every key becomes a string.
KeyText(k) == IF k.t = "int" THEN Digits(k.n) ELSE k.s

RECURSIVE InsertSorted(_, _)
InsertSorted(k, ks) ==
    IF ks = <<>> THEN <<k>>
    ELSE IF KeyLess(k, Head(ks)) THEN <<k>> \o ks
    ELSE <<Head(ks)>> \o InsertSorted(k, Tail(ks))

RECURSIVE SortKeys(_)
\* sorted(dct.items()): the keys of a mapping in their native order.
SortKeys(ks) ==
    IF ks = <<>> THEN <<>> ELSE InsertSorted(Head(ks), SortKeys(Tail(ks)))

\* json.dumps(mapping): the keys as text, in insertion order.
DumpsPlain(ks) == [i \in 1..Len(ks) |-> KeyText(ks[i])]

\* json.dumps(mapping, sort_keys=True): the keys are sorted as the caller
\* holds them (ints numerically) and only then written as text.
DumpsSorted(ks) == DumpsPlain(SortKeys(ks))

\* json.loads of a written mapping: every key comes back as a str.
LoadsKeys(texts) == [i \in 1..Len(texts) |-> StrKey(texts[i])]

\* The data arguments a caller passes: None, {}, {"b": .., "a": ..} and a
\* mapping with the int keys 9 and 10.
DataInputs ==
    { [none |-> TRUE,  keys |-> <<>>],
      [none |-> FALSE, keys |-> <<>>],
      [none |-> FALSE, keys |-> <<StrKey(<<ChB>>), StrKey(<<ChA>>)>>],
      [none |-> FALSE, keys |-> <<IntKey(9), IntKey(10)>>] }

\* `data or {}`: None and the empty mapping both become {}.
DataOrEmpty(d) == IF d.none \/ d.keys = <<>> THEN <<>> ELSE d.keys

\* The descriptions a caller passes.
Descriptions == { <<ChA>>, <<ChA, ChB>> }

Categories == { "observation" }

\* ----------------------------------------------------------------- digests

\* hashlib.sha256(x).hexdigest(), collision free.
SHA256(x) == <<"sha", x>>

\* Values a prev_hash or hash field can hold besides a digest string.
MISSING == <<"missing">>   \* the key is absent
NULL    == <<"null">>      \* JSON null, Python None
NUM     == <<"num">>       \* a JSON number
EMPTYSTR == <<"str", <<>> >>  \* the empty string ""

IsStr(v) == v \notin {MISSING, NULL, NUM}

\* entry.get(key): None when the key is absent.
Get(v) == IF v = MISSING THEN NULL ELSE v

\* entry.get(key, default).
GetOr(v, default) == IF v = MISSING THEN default ELSE v

\* ------------------------------------------------------------------- state

VARIABLES
    impl,        \* which ledger the behaviour runs: "logger", "precision", "zelensky"
    exists,      \* the chain file exists
    file,        \* the newline-terminated lines of the chain file, in file order
    torn,        \* the file ends in an unterminated fragment of a failed write
    last_hash,   \* EvidenceLogger.last_hash, the in-memory cursor
    now,         \* the clock: the timestamp the next entry gets
    created,     \* history: the entries returned by successful appends, in order
    failed,      \* history: some append ended in an I/O error
    tamper,      \* history: the one edit made to the file from outside
    ret,         \* what the last operation returned or raised
    incidents,   \* the record store's in-memory collection
    analyzer,    \* AttackPatternAnalyzer.incidents of the orchestrator
    snapExists,  \* the incident snapshot file exists
    snapshot,    \* the incidents of the snapshot file, in file order
    procs,       \* the ledger objects of two processes that share the chain file
    current_level \* LegalEscalation.current_level of the orchestrator

ledgerVars == <<exists, file, torn, last_hash, now, created, failed, tamper>>
storeVars == <<incidents, analyzer, snapExists, snapshot>>
vars == <<impl, exists, file, torn, last_hash, now, created, failed, tamper,
          ret, incidents, analyzer, snapExists, snapshot, procs, current_level>>

Impls == {"logger", "precision", "zelensky"}

\* ------------------------------------------------------------ chain lines

\* hashlib.sha256(b"GENESIS").hexdigest()
GENESIS == SHA256(<<"GENESIS">>)

\* ZelenskyChain._genesis
ZelenskyChain_genesis == SHA256(<<"ZELENSKY_PROTOCOL_2025-02-28">>)

\* The genesis digest of the ledger in use.
Genesis(i) == IF i = "zelensky" THEN ZelenskyChain_genesis ELSE GENESIS

\* The platform mapping EvidenceLogger adds to every entry.
HostPlatform == "host"

\* A decoded record line.  ZelenskyChain keeps its text in `content`, held
\* here in the description field; it has no data, platform or attachments.
RecLine(ts, cat, desc, dataKeys, plat, att, prev, h) ==
    [kind |-> "rec", timestamp |-> ts, category |-> cat, description |-> desc,
     data |-> dataKeys, platform |-> plat, attachments |-> att, extra |-> "",
     prev_hash |-> prev, hash |-> h]

\* A line with no record in it: "garbage" does not decode, "nonmap" decodes
\* to a list or a number, "blank" is whitespace only.
OtherLine(k) ==
    [kind |-> k, timestamp |-> 0, category |-> "", description |-> <<>>,
     data |-> <<>>, platform |-> "", attachments |-> "absent", extra |-> "",
     prev_hash |-> MISSING, hash |-> MISSING]

\* The lines Python's file iteration yields: the terminated lines and, when
\* a write was cut short, the fragment it left at the end.
FileLines(f, t) == IF t THEN f \o <<OtherLine("garbage")>> ELSE f

NonBlank(ls) == SelectSeq(ls, LAMBDA l : l.kind # "blank")

\* ----------------------------------------------------- EvidenceLogger

\* json.dumps(entry_data, sort_keys=True) + prev_hash, then SHA-256.  The
\* sorted key order is attachments, category, data, description, platform,
\* timestamp; attachments is in the mapping only when the entry has it.
compute_hash(ts, cat, desc, dataKeys, plat, att, prev) ==
    SHA256(<<att, cat, DumpsSorted(dataKeys), desc, plat, ts, prev>>)

\* EvidenceLogger._get_last_hash: the entry_hash of the last non-blank line,
\* genesis when there is none or it does not decode.
get_last_hash(ex, ls) ==
    LET nb == NonBlank(ls) IN
    IF ~ex \/ nb = <<>> THEN GENESIS
    ELSE IF nb[Len(nb)].kind = "garbage" THEN GENESIS
    ELSE GetOr(nb[Len(nb)].hash, GENESIS)

\* The line log_entry writes: the entry as json.dumps(full_entry) persists
\* it and json.loads reads it back (mapping keys become strings, insertion
\* order kept).  The hash is computed over the caller's data mapping.
log_entry_line(ts, cat, desc, d, cursor) ==
    LET keys == DataOrEmpty(d) IN
    RecLine(ts, cat, desc, LoadsKeys(DumpsPlain(keys)), HostPlatform, "absent",
            cursor,
            compute_hash(ts, cat, desc, keys, HostPlatform, "absent", cursor))

\* ------------------------------------------------------- EvidenceChain

\* json.dumps(entry, sort_keys=True) over category, data, description,
\* prev_hash and timestamp, then SHA-256.
EvidenceChain_hash(ts, cat, desc, dataKeys, prev) ==
    SHA256(<<cat, DumpsSorted(dataKeys), desc, prev, ts>>)

\* What reading the last hash of the file does: "raise" when the last line
\* does not decode to a mapping, else the value found.
LastLineState(ex, ls) ==
    LET nb == NonBlank(ls) IN
    IF ~ex \/ nb = <<>> THEN "empty"
    ELSE IF nb[Len(nb)].kind = "rec" THEN "rec" ELSE "raise"

\* EvidenceChain._last_hash: json.loads(lines[-1]).get("hash", "").
EvidenceChain_last_hash(ex, ls) ==
    LET nb == NonBlank(ls) IN
    IF LastLineState(ex, ls) = "empty" THEN GENESIS
    ELSE GetOr(nb[Len(nb)].hash, EMPTYSTR)

EvidenceChain_append_line(ts, cat, desc, d, prev) ==
    LET keys == DataOrEmpty(d) IN
    RecLine(ts, cat, desc, LoadsKeys(DumpsPlain(keys)), "", "absent",
            prev, EvidenceChain_hash(ts, cat, desc, keys, prev))

\* ------------------------------------------------------- ZelenskyChain

\* ZelenskyChain._last_hash: json.loads(lines[-1]).get("hash", genesis).
ZelenskyChain_last_hash(ex, ls) ==
    LET nb == NonBlank(ls) IN
    IF LastLineState(ex, ls) = "empty" THEN ZelenskyChain_genesis
    ELSE GetOr(nb[Len(nb)].hash, ZelenskyChain_genesis)

\* SHA-256 of "timestamp|category|content|prev".
ZelenskyChain_hash(ts, cat, content, prev) == SHA256(<<ts, cat, content, prev>>)

ZelenskyChain_record_line(ts, cat, content, prev) ==
    RecLine(ts, cat, content, <<>>, "", "absent",
            prev, ZelenskyChain_hash(ts, cat, content, prev))

\* ------------------------------------------------------------ operations

\* What an operation hands back.  status is "ok", "IOError" (the write
\* failed) or "raised" (another exception left the call); valid and errors
\* are verify's pair, n is count's number or the lines verify examined.
Ret(op, status, valid, errors, n) ==
    [op |-> op, status |-> status, valid |-> valid, errors |-> errors, n |-> n]

NoRet == Ret("none", "ok", TRUE, <<>>, 0)

Err(i, k) == [line |-> i, kind |-> k]

\* Mutant of log_entry: the cursor is assigned before the write.
log_entry_cursor_first(ts, cat, desc, d, cursor, wrote) ==
    LET line == log_entry_line(ts, cat, desc, d, cursor) IN
    [entry |-> line,
     status |-> IF wrote THEN "ok" ELSE "IOError",
     last_hash |-> line.hash]

\* log_entry without the assignment to self.last_hash: the cursor stays.
log_entry_keeps_cursor(ts, cat, desc, d, cursor, wrote) ==
    [entry |-> log_entry_line(ts, cat, desc, d, cursor),
     status |-> IF wrote THEN "ok" ELSE "IOError",
     last_hash |-> cursor]

\* EvidenceLogger.log_entry with the outcome of its write: the entry, the
\* status and the cursor afterwards.  The cursor is assigned after the
\* write, so a write that raises leaves it as it was.
log_entry(ts, cat, desc, d, cursor, wrote) ==
    LET line == log_entry_line(ts, cat, desc, d, cursor) IN
    [entry |-> line,
     status |-> IF wrote THEN "ok" ELSE "IOError",
     last_hash |-> IF wrote THEN line.hash ELSE cursor]

\* Mutant of WriteLine: the file is opened with "w" and holds the new line only.
WriteLine_truncate(f, t, line) == <<line>>

\* open(path, "a") and write(line + "\n"): the line goes after everything
\* the file holds; a fragment left by a failed write becomes part of it and
\* the merged line no longer decodes.
WriteLine(f, t, line) ==
    IF t THEN Append(f, OtherLine("garbage")) ELSE Append(f, line)

\* Mutant of LinkBroken: the link is never compared.
LinkBroken_never(declared, expected) == FALSE

\* entry.get("prev_hash") != prev: the declared link is not the hash of the
\* line before (or genesis).
LinkBroken(declared, expected) == Get(declared) # expected

RECURSIVE verify_chain_scan(_, _, _, _)
\* The loop of EvidenceLogger.verify_chain from line i on.
verify_chain_scan(ls, i, prev, errors) ==
    IF i > Len(ls) THEN Ret("verify", "ok", errors = <<>>, errors, Len(ls))
    ELSE LET e == ls[i] IN
    IF e.kind = "blank" THEN verify_chain_scan(ls, i + 1, prev, errors)
    ELSE IF e.kind = "garbage"
        THEN verify_chain_scan(ls, i + 1, prev, Append(errors, Err(i, "CorruptRecord")))
    ELSE IF e.kind = "nonmap"
        \* entry.get on a list or a number: AttributeError
        THEN Ret("verify", "raised", FALSE, errors, i)
    ELSE
        LET broken == LinkBroken(e.prev_hash, prev)
            \* the message slices prev_hash and entry.get('prev_hash', 'MISSING')
            msgRaises == broken /\ (~IsStr(prev) \/ e.prev_hash \in {NULL, NUM})
            \* json text + prev_hash: TypeError unless prev_hash is a string
            sumRaises == e.prev_hash \in {NULL, NUM}
            errs1 == IF broken THEN Append(errors, Err(i, "ChainBreak")) ELSE errors
            computed == compute_hash(e.timestamp, e.category, e.description,
                                     e.data, e.platform, e.attachments,
                                     GetOr(e.prev_hash, EMPTYSTR))
            errs2 == IF computed # Get(e.hash)
                     THEN Append(errs1, Err(i, "TamperDetected")) ELSE errs1
        IN IF msgRaises \/ sumRaises
           THEN Ret("verify", "raised", FALSE, errors, i)
           ELSE verify_chain_scan(ls, i + 1, GetOr(e.hash, prev), errs2)

\* Mutant of verify_chain: no check that the file exists, so open() raises.
verify_chain_no_exists_check(ex, ls) ==
    IF ~ex THEN Ret("verify", "raised", FALSE, <<>>, 0)
    ELSE verify_chain_scan(ls, 1, GENESIS, <<>>)

\* EvidenceLogger.verify_chain
verify_chain(ex, ls) ==
    IF ~ex THEN Ret("verify", "ok", TRUE, <<>>, 0)
    ELSE verify_chain_scan(ls, 1, GENESIS, <<>>)

RECURSIVE link_scan(_, _, _, _)
\* The loop EvidenceChain.verify and ZelenskyChain.verify share: the link to
\* the previous line is compared, the line's own hash is not recomputed.
link_scan(ls, i, prev, errors) ==
    IF i > Len(ls) THEN Ret("verify", "ok", errors = <<>>, errors, Len(ls))
    ELSE LET e == ls[i] IN
    IF e.kind = "blank" THEN link_scan(ls, i + 1, prev, errors)
    ELSE IF e.kind = "garbage"
        THEN link_scan(ls, i + 1, prev, Append(errors, Err(i, "CorruptRecord")))
    ELSE IF e.kind = "nonmap"
        \* AttributeError is not the JSONDecodeError the handler catches
        THEN Ret("verify", "raised", FALSE, errors, i)
    ELSE link_scan(ls, i + 1, GetOr(e.hash, prev),
                   IF LinkBroken(e.prev_hash, prev)
                   THEN Append(errors, Err(i, "ChainBreak")) ELSE errors)

\* EvidenceChain.verify
EvidenceChain_verify(ex, ls) ==
    IF ~ex THEN Ret("verify", "ok", TRUE, <<>>, 0)
    ELSE link_scan(ls, 1, GENESIS, <<>>)

\* ZelenskyChain.verify
ZelenskyChain_verify(ex, ls) ==
    IF ~ex THEN Ret("verify", "ok", TRUE, <<>>, 0)
    ELSE link_scan(ls, 1, ZelenskyChain_genesis, <<>>)

\* verify of the ledger in use.
VerifyOf(i, ex, ls) ==
    CASE i = "logger" -> verify_chain(ex, ls)
      [] i = "precision" -> EvidenceChain_verify(ex, ls)
      [] OTHER -> ZelenskyChain_verify(ex, ls)

\* count without the test of l.strip(): every line is counted.
count_all_lines(ex, ls) == IF ~ex THEN 0 ELSE Len(ls)

\* EvidenceChain.count, ZelenskyChain.count and the entry count of the
\* status command: the lines that are not blank.
count(ex, ls) == IF ~ex THEN 0 ELSE Len(NonBlank(ls))

\* ---------------------------------------------------------- ledger actions

Range(q) == { q[i] : i \in 1..Len(q) }

NoTamper == [op |-> "none", line |-> 0, field |-> ""]

\* The processes that share a chain file.  Each holds what its ledger object
\* has read: pc = "ready" once it has read the last hash, prev the value read.
Procs == {1, 2}

\* The record store before any incident is recorded.
StoreInit ==
    /\ incidents = <<>>
    /\ analyzer = <<>>
    /\ snapExists = FALSE
    /\ snapshot = <<>>

\* LegalEscalation.__init__: the level a new assessor holds.
LegalEscalation_current_level == 1

\* A ledger object constructed on a chain file that is absent or empty.
Init ==
    /\ impl \in Impls
    /\ exists \in BOOLEAN
    /\ file = <<>>
    /\ torn = FALSE
    /\ last_hash = IF impl = "logger" THEN get_last_hash(exists, <<>>) ELSE Genesis(impl)
    /\ now = 1
    /\ created = <<>>
    /\ failed = FALSE
    /\ tamper = NoTamper
    /\ ret = NoRet
    /\ StoreInit
    /\ procs = [p \in Procs |-> [pc |-> "idle", prev |-> MISSING]]
    /\ current_level = LegalEscalation_current_level

\* The link the next entry gets: the logger's cursor, or the last hash the
\* other two ledgers read from the file at every append.
PrevForAppend ==
    CASE impl = "logger" -> last_hash
      [] impl = "precision" -> EvidenceChain_last_hash(exists, FileLines(file, torn))
      [] OTHER -> ZelenskyChain_last_hash(exists, FileLines(file, torn))

\* The entry an append builds.
NewLine(cat, desc, d) ==
    CASE impl = "logger" -> log_entry(now, cat, desc, d, last_hash, TRUE).entry
      [] impl = "precision" -> EvidenceChain_append_line(now, cat, desc, d, PrevForAppend)
      [] OTHER -> ZelenskyChain_record_line(now, cat, desc, PrevForAppend)

\* EvidenceChain.append and ZelenskyChain.record decode the last line before
\* they build the entry; a last line that is no mapping makes them raise.
ReadRaises == impl # "logger" /\ LastLineState(exists, FileLines(file, torn)) = "raise"

\* log_entry / append / record, the write succeeding.
AppendOk(cat, desc, d) ==
    /\ tamper.op \in {"none", "truncate"}
    /\ Len(created) < MaxLen
    /\ ~ReadRaises
    /\ LET line == NewLine(cat, desc, d) IN
        /\ file' = WriteLine(file, torn, line)
        /\ created' = Append(created, line)
        /\ last_hash' = IF impl = "logger"
                        THEN log_entry(now, cat, desc, d, last_hash, TRUE).last_hash
                        ELSE last_hash
    /\ exists' = TRUE
    /\ torn' = FALSE
    /\ now' = now + 1
    /\ ret' = Ret("append", "ok", TRUE, <<>>, 0)
    /\ UNCHANGED <<impl, procs, current_level, failed, tamper, incidents, analyzer, snapExists, snapshot>>

\* log_entry / append / record, open() or write() raising OSError: either
\* nothing reached the file or an unterminated fragment of the line did.
AppendIOError(cat, desc, d, partial) ==
    /\ tamper.op = "none"
    /\ Len(created) < MaxLen
    /\ ~ReadRaises
    /\ last_hash' = IF impl = "logger"
                    THEN log_entry(now, cat, desc, d, last_hash, FALSE).last_hash
                    ELSE last_hash
    /\ exists' = (exists \/ partial)
    /\ torn' = (torn \/ partial)
    /\ failed' = TRUE
    /\ ret' = Ret("append", "IOError", FALSE, <<>>, 0)
    /\ UNCHANGED <<impl, procs, current_level, file, now, created, tamper, incidents, analyzer, snapExists, snapshot>>

\* EvidenceChain.append / ZelenskyChain.record raising while they read the
\* last hash: nothing is written.
AppendReadError ==
    /\ tamper.op = "none"
    /\ ReadRaises
    /\ ret' = Ret("append", "raised", FALSE, <<>>, 0)
    /\ UNCHANGED <<impl, procs, current_level, exists, file, torn, last_hash, now, created, failed, tamper,
                   incidents, analyzer, snapExists, snapshot>>

\* verify_chain / verify
Verify ==
    /\ ret' = VerifyOf(impl, exists, FileLines(file, torn))
    /\ UNCHANGED <<impl, procs, current_level, exists, file, torn, last_hash, now, created, failed, tamper,
                   incidents, analyzer, snapExists, snapshot>>

\* The exit status of a command: main returns and the interpreter exits
\* with 0; an exception that nothing catches ends it with 1.
ExitStatus(status) == IF status = "raised" THEN 1 ELSE 0

\* The verify command of the three programs: verify, print the verdict and
\* the errors, return.  ret.n is the exit status of the process.
VerifyCommand ==
    /\ LET r == VerifyOf(impl, exists, FileLines(file, torn))
       IN ret' = Ret("verify_command", r.status, r.valid, r.errors, ExitStatus(r.status))
    /\ UNCHANGED <<impl, procs, current_level, exists, file, torn, last_hash, now, created, failed, tamper,
                   incidents, analyzer, snapExists, snapshot>>

\* LegalDocumentGenerator.generate_chain_verification on the chain file of
\* EvidenceLogger: the links are compared as verify_chain compares them, no
\* hash is recomputed.  valid stands for the report saying "Chain
\* integrity: VALID" and "Evidence chain has not been tampered with."; with
\* no file the report says "No evidence chain found." and neither.
generate_chain_verification(ex, ls) ==
    IF ~ex THEN Ret("report", "ok", FALSE, <<>>, 0)
    ELSE LET r == link_scan(ls, 1, GENESIS, <<>>)
         IN Ret("report", r.status, r.status = "ok" /\ r.errors = <<>>, r.errors, r.n)

\* The chain verification report is generated.
ChainReport ==
    /\ impl = "logger"
    /\ ret' = generate_chain_verification(exists, FileLines(file, torn))
    /\ UNCHANGED <<impl, procs, current_level, exists, file, torn, last_hash, now, created, failed, tamper,
                   incidents, analyzer, snapExists, snapshot>>

\* count
Count ==
    /\ ret' = Ret("count", "ok", TRUE, <<>>, count(exists, FileLines(file, torn)))
    /\ UNCHANGED <<impl, procs, current_level, exists, file, torn, last_hash, now, created, failed, tamper,
                   incidents, analyzer, snapExists, snapshot>>

\* ------------------------------------------- edits made outside the ledger

\* A chain file produced only by successful appends, not yet edited.
Untouched == tamper.op = "none" /\ ~failed /\ ~torn /\ file # <<>>

\* The fields a ledger writes besides the two hashes.
EntryFields(i) ==
    CASE i = "logger" -> {"timestamp", "category", "data", "platform", "prev_hash"}
      [] i = "precision" -> {"timestamp", "category", "data", "prev_hash"}
      [] OTHER -> {"timestamp", "category", "prev_hash"}

\* Line l with the value of field f replaced by another value.
WithChangedField(l, f) ==
    CASE f = "timestamp" -> [l EXCEPT !.timestamp = l.timestamp + 100]
      [] f = "category" -> [l EXCEPT !.category = "tampered"]
      [] f = "data" -> [l EXCEPT !.data = Append(l.data, StrKey(<<ChA, ChA>>))]
      [] f = "platform" -> [l EXCEPT !.platform = "other"]
      [] OTHER -> [l EXCEPT !.prev_hash = SHA256(<<"forged">>)]

\* One character of the description of line i is replaced by another one.
FlipDescriptionChar(i, k, c) ==
    /\ Untouched
    /\ file[i].description[k] # c
    /\ file' = [file EXCEPT ![i].description[k] = c]
    /\ tamper' = [op |-> "flip", line |-> i, field |-> "description"]
    /\ ret' = NoRet
    /\ UNCHANGED <<impl, procs, current_level, exists, torn, last_hash, now, created, failed,
                   incidents, analyzer, snapExists, snapshot>>

\* Line i is removed from the file.
DeleteLine(i) ==
    /\ Untouched
    /\ file' = [j \in 1..(Len(file) - 1) |-> IF j < i THEN file[j] ELSE file[j + 1]]
    /\ tamper' = [op |-> "delete", line |-> i, field |-> ""]
    /\ ret' = NoRet
    /\ UNCHANGED <<impl, procs, current_level, exists, torn, last_hash, now, created, failed,
                   incidents, analyzer, snapExists, snapshot>>

\* The lines are put in another order.
ReorderLines(p) ==
    /\ Untouched
    /\ \E j \in 1..Len(file) : p[j] # j
    /\ file' = [j \in 1..Len(file) |-> file[p[j]]]
    /\ tamper' = [op |-> "reorder", line |-> 0, field |-> ""]
    /\ ret' = NoRet
    /\ UNCHANGED <<impl, procs, current_level, exists, torn, last_hash, now, created, failed,
                   incidents, analyzer, snapExists, snapshot>>

\* The value of one field of line i is changed, the stored hash kept.
ChangeField(i, f) ==
    /\ Untouched
    /\ file' = [file EXCEPT ![i] = WithChangedField(file[i], f)]
    /\ tamper' = [op |-> "change", line |-> i, field |-> f]
    /\ ret' = NoRet
    /\ UNCHANGED <<impl, procs, current_level, exists, torn, last_hash, now, created, failed,
                   incidents, analyzer, snapExists, snapshot>>

\* A field the ledger did not write is added to line i, the stored hash kept.
AddField(i) ==
    /\ Untouched
    /\ file' = [file EXCEPT ![i].extra = "note"]
    /\ tamper' = [op |-> "addfield", line |-> i, field |-> "extra"]
    /\ ret' = NoRet
    /\ UNCHANGED <<impl, procs, current_level, exists, torn, last_hash, now, created, failed,
                   incidents, analyzer, snapExists, snapshot>>

\* Line i is replaced by text that is no record: it does not decode, decodes
\* to a list or a number, or is blank.
CorruptLine(i, k) ==
    /\ Untouched
    /\ file' = [file EXCEPT ![i] = OtherLine(k)]
    /\ tamper' = [op |-> "corrupt", line |-> i, field |-> k]
    /\ ret' = NoRet
    /\ UNCHANGED <<impl, procs, current_level, exists, torn, last_hash, now, created, failed,
                   incidents, analyzer, snapExists, snapshot>>

\* prev_hash or hash of line i is removed, or set to null or to a number.
BreakHashField(i, f, v) ==
    /\ Untouched
    /\ file' = IF f = "prev_hash" THEN [file EXCEPT ![i].prev_hash = v]
                                  ELSE [file EXCEPT ![i].hash = v]
    /\ tamper' = [op |-> "hashfield", line |-> i, field |-> f]
    /\ ret' = NoRet
    /\ UNCHANGED <<impl, procs, current_level, exists, torn, last_hash, now, created, failed,
                   incidents, analyzer, snapExists, snapshot>>

Tamper ==
    \/ \E i \in 1..Len(file) : \E k \in 1..Len(file[i].description) : \E c \in Chars :
            FlipDescriptionChar(i, k, c)
    \/ \E i \in 1..Len(file) : DeleteLine(i)
    \/ \E p \in Permutations(1..Len(file)) : ReorderLines(p)
    \/ \E i \in 1..Len(file) : \E f \in EntryFields(impl) : ChangeField(i, f)
    \/ \E i \in 1..Len(file) : AddField(i)
    \/ \E i \in 1..Len(file) : \E k \in {"garbage", "nonmap", "blank"} : CorruptLine(i, k)
    \/ \E i \in 1..Len(file) : \E f \in {"prev_hash", "hash"} : \E v \in {MISSING, NULL, NUM} :
            BreakHashField(i, f, v)

AppendEntry ==
    \/ \E cat \in Categories, desc \in Descriptions, d \in DataInputs :
            AppendOk(cat, desc, IF impl = "zelensky" THEN [none |-> TRUE, keys |-> <<>>] ELSE d)
    \/ \E cat \in Categories, desc \in Descriptions, partial \in BOOLEAN :
            AppendIOError(cat, desc, [none |-> TRUE, keys |-> <<>>], partial)
    \/ AppendReadError

Next == AppendEntry \/ Tamper \/ Verify \/ Count \/ VerifyCommand \/ ChainReport

Spec == Init /\ [][Next]_vars

\* ------------------------------------------- a chain file cut at its end

\* The last k lines are removed from the file; the file stays, empty when
\* every line is removed.
TruncateTail(k) ==
    /\ Untouched
    /\ file' = SubSeq(file, 1, Len(file) - k)
    /\ tamper' = [op |-> "truncate", line |-> Len(file) - k, field |-> ""]
    /\ ret' = NoRet
    /\ UNCHANGED <<impl, procs, current_level, exists, torn, last_hash, now, created, failed,
                   incidents, analyzer, snapExists, snapshot>>

\* EvidenceLogger.__init__ on the file as it is: a new ledger object, its
\* cursor read from the last line.  The other two ledgers hold no cursor.
Reopen ==
    /\ impl = "logger"
    /\ last_hash' = get_last_hash(exists, FileLines(file, torn))
    /\ ret' = NoRet
    /\ UNCHANGED <<impl, procs, current_level, exists, file, torn, now, created, failed, tamper,
                   incidents, analyzer, snapExists, snapshot>>

NextTruncate ==
    \/ \E cat \in Categories, desc \in Descriptions, d \in DataInputs :
            AppendOk(cat, desc, IF impl = "zelensky" THEN [none |-> TRUE, keys |-> <<>>] ELSE d)
    \/ \E k \in 1..Len(file) : TruncateTail(k)
    \/ Reopen
    \/ Verify

SpecTruncate == Init /\ [][NextTruncate]_vars

\* ------------------------------------------- two processes on one chain file

\* The last hash a ledger reads from the file: EvidenceLogger in its
\* constructor, EvidenceChain and ZelenskyChain at the start of an append.
ReadLastHash ==
    CASE impl = "logger" -> get_last_hash(exists, FileLines(file, torn))
      [] impl = "precision" -> EvidenceChain_last_hash(exists, FileLines(file, torn))
      [] OTHER -> ZelenskyChain_last_hash(exists, FileLines(file, torn))

\* The link a writer would give its entry if the read and the write were one
\* step: the last hash of the file at the time of the write.
WriterPrev_at_write(p) == ReadLastHash

\* The link a writer gives its entry: the value it read.
WriterPrev(p) == procs[p].prev

\* The entry process p writes.
ProcLine(p, desc) ==
    CASE impl = "logger" ->
            log_entry(now, "observation", desc, [none |-> TRUE, keys |-> <<>>],
                      WriterPrev(p), TRUE).entry
      [] impl = "precision" ->
            EvidenceChain_append_line(now, "observation", desc,
                                      [none |-> TRUE, keys |-> <<>>], WriterPrev(p))
      [] OTHER -> ZelenskyChain_record_line(now, "observation", desc, WriterPrev(p))

\* EvidenceLogger.__init__ (self.last_hash = self._get_last_hash()), or the
\* first statement of EvidenceChain.append and ZelenskyChain.record
\* (prev = self._last_hash()): process p reads the last hash of the file.
ProcRead(p) ==
    /\ procs[p].pc = "idle"
    /\ procs' = [procs EXCEPT ![p] = [pc |-> "ready", prev |-> ReadLastHash]]
    /\ ret' = NoRet
    /\ UNCHANGED <<impl, current_level, exists, file, torn, last_hash, now, created, failed, tamper,
                   incidents, analyzer, snapExists, snapshot>>

\* The rest of the append: process p builds the entry on the value it read
\* and appends the line.  EvidenceLogger keeps the new hash as its cursor;
\* the other two ledgers read the file again at their next append.
ProcWrite(p, desc) ==
    /\ procs[p].pc = "ready"
    /\ Len(created) < MaxLen
    /\ LET line == ProcLine(p, desc) IN
        /\ file' = WriteLine(file, torn, line)
        /\ created' = Append(created, line)
        /\ procs' = [procs EXCEPT ![p] =
                        IF impl = "logger"
                        THEN [pc |-> "ready", prev |-> line.hash]
                        ELSE [pc |-> "idle", prev |-> procs[p].prev]]
    /\ exists' = TRUE
    /\ now' = now + 1
    /\ ret' = Ret("append", "ok", TRUE, <<>>, 0)
    /\ UNCHANGED <<impl, current_level, torn, last_hash, failed, tamper,
                   incidents, analyzer, snapExists, snapshot>>

NextInterleaved ==
    \/ \E p \in Procs : ProcRead(p)
    \/ \E p \in Procs, desc \in Descriptions : ProcWrite(p, desc)
    \/ Verify

SpecInterleaved == Init /\ [][NextInterleaved]_vars

\* ----------------------------------------------------------- record stores

\* Most incidents a store holds in memory in a behaviour.
MaxIncidents == 4

\* Last clock tick at which a store records an incident.
MaxClock == 4

\* precision.py, Vector: the closed category set of IncidentTracker's toolkit.
VectorNames ==
    {"SURVEILLANCE", "GASLIGHTING", "HARASSMENT", "ISOLATION", "REPUTATION",
     "ECONOMIC", "LEGAL_ABUSE", "TECHNOLOGICAL", "PSYCHOLOGICAL", "INSTITUTIONAL"}

\* moral_counterattack.py, AttackVector: the member with value m has the
\* m-th name (auto() numbers the members from 1).
AttackVectorNames ==
    <<"SURVEILLANCE", "HARASSMENT", "REPUTATION", "GASLIGHTING", "ISOLATION",
      "ECONOMIC", "LEGAL_ABUSE", "TECHNOLOGICAL", "PSYCHOLOGICAL", "INSTITUTIONAL",
      "PROXY_HARASSMENT", "INFORMATION_WARFARE">>

AttackVectors == 1..Len(AttackVectorNames)

\* AttackVector[name] succeeds.
IsAttackVector(name) == \E m \in AttackVectors : AttackVectorNames[m] = name

\* AttackVector[name]
AttackVector_byName(name) == CHOOSE m \in AttackVectors : AttackVectorNames[m] = name

\* The vector strings a caller types.
VectorInputs == {"harassment", "SURVEILLANCE", "bogus"}

\* str.upper() on the strings of VectorInputs.
Upper(v) ==
    CASE v = "harassment" -> "HARASSMENT"
      [] v = "bogus" -> "BOGUS"
      [] OTHER -> v

Severities == {3, 9}

\* The descriptions a caller gives an incident.
StoreDescriptions == {<<ChA>>}

\* The default severity of record and record_incident.
DefaultSeverity == 5

\* Character codes of "[", "]" and " ", and of a vector name inside a
\* description (one code for the whole name).
ChOpen == 10 + 3
ChClose == 10 + 4
ChSpace == 10 + 5
NameCode(name) ==
    IF IsAttackVector(name) THEN 100 + AttackVector_byName(name) ELSE 100

\* f"[{vector}] {description}"
Tagged(name, desc) == <<ChOpen, NameCode(name), ChClose, ChSpace>> \o desc

\* Keys of the data mappings the toolkits attach to an incident's entry.
KeyHash == StrKey(<<ChA>>)
KeyIncidentId == StrKey(<<ChA, ChB>>)
KeyVector == StrKey(<<ChB>>)

\* An incident.  IncidentTracker keeps the vector as the string it was given
\* and a 16-digit hash; the orchestrator keeps an AttackVector member and no hash.
Inc(ts, v, desc, sev, h) ==
    [timestamp |-> ts, vector |-> v, description |-> desc, severity |-> sev, hash |-> h]

\* sha256(f"{ts}{vector}{description}").hexdigest()[:16]
IncidentHash(ts, v, desc) == <<"sha16", <<ts, v, desc>> >>

\* AttackIncident.to_dict: the member is written as its name.
to_dict(i) == [i EXCEPT !.vector = AttackVectorNames[i.vector]]

\* load_incidents, one item, with the name not looked up: every item gets
\* the first member.
from_dict_first_member(item) == [item EXCEPT !.vector = 1]

\* load_incidents, one item: the name is looked up in AttackVector.
from_dict(item) == [item EXCEPT !.vector = AttackVector_byName(item.vector)]

\* IncidentTracker.record: no check of the vector; the incident is appended
\* and the whole collection saved.
IncidentTracker_record(coll, ts, v, desc, sev) ==
    Append(coll, Inc(ts, v, desc, sev, IncidentHash(ts, v, desc)))

\* IncidentTracker._save / _load: the incidents as a JSON array and back.
IncidentTracker_save(coll) == coll
IncidentTracker_load(ex, snap) == IF ex THEN snap ELSE <<>>

\* CounterStrategyOrchestrator._save_incidents
save_incidents(coll) == [k \in 1..Len(coll) |-> to_dict(coll[k])]

\* CounterStrategyOrchestrator.load_incidents: the incidents of the file are
\* appended to the collection the object already holds.
load_incidents(coll, ex, snap) ==
    IF ex THEN coll \o [k \in 1..Len(snap) |-> from_dict(snap[k])] ELSE coll

\* IncidentTracker.record called directly.
TrackerRecord(v, desc, sev) ==
    /\ impl = "precision"
    /\ now <= MaxClock
    /\ Len(incidents) < MaxIncidents
    /\ incidents' = IncidentTracker_record(incidents, now, v, desc, sev)
    /\ snapshot' = IncidentTracker_save(incidents')
    /\ snapExists' = TRUE
    /\ now' = now + 1
    /\ ret' = Ret("record", "ok", TRUE, <<>>, 0)
    /\ UNCHANGED <<impl, procs, current_level, exists, file, torn, last_hash, created, failed, tamper, analyzer>>

\* PrecisionToolkit.incident: the vector is checked against Vector, the
\* incident recorded with the default severity and an entry appended to the
\* evidence chain.
PrecisionIncident(v, desc) ==
    /\ impl = "precision"
    /\ now <= MaxClock
    /\ Len(incidents) < MaxIncidents
    /\ Len(created) < MaxLen
    /\ ~ReadRaises
    /\ IF Upper(v) \notin VectorNames
       THEN /\ ret' = Ret("record", "rejected", FALSE, <<>>, 0)
            /\ UNCHANGED <<exists, file, now, created, incidents, snapshot, snapExists>>
       ELSE LET line == EvidenceChain_append_line(
                            now, "incident", Tagged(Upper(v), desc),
                            [none |-> FALSE, keys |-> <<KeyHash>>], PrevForAppend)
            IN /\ incidents' = IncidentTracker_record(incidents, now, Upper(v), desc,
                                                      DefaultSeverity)
               /\ snapshot' = IncidentTracker_save(incidents')
               /\ snapExists' = TRUE
               /\ file' = WriteLine(file, torn, line)
               /\ created' = Append(created, line)
               /\ exists' = TRUE
               /\ now' = now + 1
               /\ ret' = Ret("record", "ok", TRUE, <<>>, 0)
    /\ UNCHANGED <<impl, procs, current_level, torn, last_hash, failed, tamper, analyzer>>

\* IncidentTracker.__init__: a new tracker loads the snapshot file.
TrackerNew ==
    /\ impl = "precision"
    /\ incidents' = IncidentTracker_load(snapExists, snapshot)
    /\ ret' = Ret("load", "ok", TRUE, <<>>, 0)
    /\ UNCHANGED <<impl, procs, current_level, exists, file, torn, last_hash, now, created, failed, tamper,
                   analyzer, snapExists, snapshot>>

\* CounterStrategyOrchestrator.record_incident with a member of AttackVector.
OrchestratorRecord(m, desc, sev) ==
    /\ impl = "logger"
    /\ now <= MaxClock
    /\ Len(incidents) < MaxIncidents
    /\ incidents' = Append(incidents, Inc(now, m, desc, sev, MISSING))
    /\ analyzer' = Append(analyzer, Inc(now, m, desc, sev, MISSING))
    /\ snapshot' = save_incidents(incidents')
    /\ snapExists' = TRUE
    /\ now' = now + 1
    /\ ret' = Ret("record", "ok", TRUE, <<>>, 0)
    /\ UNCHANGED <<impl, procs, current_level, exists, file, torn, last_hash, created, failed, tamper>>

\* CounterStrategyOrchestrator.load_incidents
OrchestratorLoad ==
    /\ impl = "logger"
    /\ Len(incidents) + Len(snapshot) <= MaxIncidents
    /\ Len(analyzer) + Len(snapshot) <= MaxIncidents
    /\ incidents' = load_incidents(incidents, snapExists, snapshot)
    /\ analyzer' = load_incidents(analyzer, snapExists, snapshot)
    /\ ret' = Ret("load", "ok", TRUE, <<>>, 0)
    /\ UNCHANGED <<impl, procs, current_level, exists, file, torn, last_hash, now, created, failed, tamper,
                   snapExists, snapshot>>

\* CounterStrategyOrchestrator.__init__: a new orchestrator holds nothing.
OrchestratorNew ==
    /\ impl = "logger"
    /\ incidents' = <<>>
    /\ analyzer' = <<>>
    /\ ret' = NoRet
    /\ UNCHANGED <<impl, procs, current_level, exists, file, torn, last_hash, now, created, failed, tamper,
                   snapExists, snapshot>>

\* DefenseToolkit.record_incident: the snapshot is loaded, then the vector
\* looked up; a known vector is recorded and logged to the evidence chain.
DefenseRecordIncident(v, desc) ==
    /\ impl = "logger"
    /\ now <= MaxClock
    /\ Len(incidents) + Len(snapshot) < MaxIncidents
    /\ Len(analyzer) + Len(snapshot) < MaxIncidents
    /\ Len(created) < MaxLen
    /\ LET loaded == load_incidents(incidents, snapExists, snapshot)
           loadedA == load_incidents(analyzer, snapExists, snapshot)
       IN IF ~IsAttackVector(Upper(v))
          THEN /\ incidents' = loaded
               /\ analyzer' = loadedA
               /\ ret' = Ret("record", "rejected", FALSE, <<>>, 0)
               /\ UNCHANGED <<exists, file, last_hash, now, created, snapshot, snapExists>>
          ELSE LET m == AttackVector_byName(Upper(v))
                   e == log_entry(now, "attack_incident", Tagged(Upper(v), desc),
                                  [none |-> FALSE, keys |-> <<KeyIncidentId, KeyVector>>],
                                  last_hash, TRUE)
               IN /\ incidents' = Append(loaded, Inc(now, m, desc, DefaultSeverity, MISSING))
                  /\ analyzer' = Append(loadedA, Inc(now, m, desc, DefaultSeverity, MISSING))
                  /\ snapshot' = save_incidents(incidents')
                  /\ snapExists' = TRUE
                  /\ file' = WriteLine(file, torn, e.entry)
                  /\ created' = Append(created, e.entry)
                  /\ last_hash' = e.last_hash
                  /\ exists' = TRUE
                  /\ now' = now + 1
                  /\ ret' = Ret("record", "ok", TRUE, <<>>, 0)
    /\ UNCHANGED <<impl, procs, current_level, torn, failed, tamper>>

\* IncidentTracker._save called with nothing recorded.
TrackerSave ==
    /\ impl = "precision"
    /\ snapshot' = IncidentTracker_save(incidents)
    /\ snapExists' = TRUE
    /\ ret' = Ret("save", "ok", TRUE, <<>>, 0)
    /\ UNCHANGED <<impl, procs, current_level, exists, file, torn, last_hash, now, created, failed, tamper,
                   incidents, analyzer>>

\* CounterStrategyOrchestrator._save_incidents called with nothing recorded.
OrchestratorSave ==
    /\ impl = "logger"
    /\ snapshot' = save_incidents(incidents)
    /\ snapExists' = TRUE
    /\ ret' = Ret("save", "ok", TRUE, <<>>, 0)
    /\ UNCHANGED <<impl, procs, current_level, exists, file, torn, last_hash, now, created, failed, tamper,
                   incidents, analyzer>>

\* Two toolkits keep incidents: precision.py and defense_toolkit.py.
InitStore == Init /\ impl \in {"logger", "precision"}

NextStore ==
    \/ \E v \in VectorInputs, desc \in StoreDescriptions, sev \in Severities :
            TrackerRecord(Upper(v), desc, sev)
    \/ \E v \in VectorInputs, desc \in StoreDescriptions : PrecisionIncident(v, desc)
    \/ TrackerNew
    \/ TrackerSave
    \/ \E m \in {1, 11}, desc \in StoreDescriptions, sev \in Severities :
            OrchestratorRecord(m, desc, sev)
    \/ OrchestratorLoad
    \/ OrchestratorNew
    \/ OrchestratorSave
    \/ \E v \in VectorInputs, desc \in StoreDescriptions : DefenseRecordIncident(v, desc)

SpecStore == InitStore /\ [][NextStore]_vars

\* ------------------------------------------------- analysis of the incidents

\* Most incidents a collection under analysis holds.
MaxAnalysed == 10

\* The vector and severity of the incidents collected for analysis.
AnalysisInputs ==
    { [vector |-> "HARASSMENT", severity |-> 3],
      [vector |-> "SURVEILLANCE", severity |-> 8],
      [vector |-> "HARASSMENT", severity |-> 9] }

Max(a, b) == IF a >= b THEN a ELSE b

\* precision.py, len(ESCALATION_LADDER): the levels 1 to 6.
EscalationLadderLevels == 6

\* An assessment that assigns the level of the incident counts after the
\* level of the severities instead of taking the greater of the two.
assess_escalation_count_overrides(coll) ==
    LET n == Len(coll)
        l4 == IF \E i \in 1..Len(coll) : coll[i].severity >= 8 THEN 4 ELSE 1
        l2 == IF n >= 3 THEN 2 ELSE l4
        l3 == IF n >= 5 THEN 3 ELSE l2
        l5 == IF n >= 10 THEN 5 ELSE l3
    IN l5

\* precision.py, assess_escalation(incidents)["current_level"].
assess_escalation(coll) ==
    LET n == Len(coll)
        l2 == IF n >= 3 THEN 2 ELSE 1
        l3 == IF n >= 5 THEN 3 ELSE l2
        l4 == IF \E i \in 1..Len(coll) : coll[i].severity >= 8 THEN Max(l3, 4) ELSE l3
        l5 == IF n >= 10 THEN Max(l4, 5) ELSE l4
    IN l5

\* LegalEscalation.assess_current_position(incidents)["current_level"]: the
\* level the object holds; the incidents only decide the legal theories.
assess_current_position(level, coll) == level

\* An assessor whose recommendation to escalate moves it up the ladder.
LegalEscalation_level_after_ratchet(level, escalate) ==
    IF escalate /\ level < 6 THEN level + 1 ELSE level

\* self.current_level after recommend_escalation: the method reads the level
\* and assigns it nowhere.
LegalEscalation_level_after(level, escalate) == level

RECURSIVE Sum(_)
\* sum(severities)
Sum(q) == IF q = <<>> THEN 0 ELSE Head(q) + Sum(Tail(q))

Severity(coll) == [k \in 1..Len(coll) |-> coll[k].severity]

\* incidents[:k] and incidents[-k:]
FirstN(coll, k) == SubSeq(coll, 1, IF Len(coll) < k THEN Len(coll) ELSE k)
LastN(coll, k) == SubSeq(coll, IF Len(coll) < k THEN 1 ELSE Len(coll) - k + 1, Len(coll))

\* The windows of the two analyses.
TrackerWindow == 3
AnalyzerWindow == 5

\* IncidentTracker.analyze, "escalating": from 3 incidents on, the mean
\* severity of the last 3 is greater than the mean severity of the first 3
\* (two quotients by the same length, compared as floats).
IncidentTracker_escalating(coll) ==
    /\ Len(coll) >= 3
    /\ Sum(Severity(LastN(coll, TrackerWindow))) > Sum(Severity(FirstN(coll, TrackerWindow)))

\* sr / n > se / n * 1.2 in double precision: the exact comparison, and
\* the two pairs of sums of five severities of 0..10 for which se / 5 * 1.2
\* is rounded below sr / 5 although 10 * sr = 12 * se.
FloatExceeds(sr, se, n) ==
    \/ 10 * sr > 12 * se
    \/ n = 5 /\ <<sr, se>> \in {<<18, 15>>, <<36, 30>>}

\* An analysis that compares the last 3 with the first 3 incidents, the
\* windows of IncidentTracker.
escalation_detected_short_window(coll) ==
    /\ Len(coll) >= 3
    /\ FloatExceeds(Sum(Severity(LastN(coll, TrackerWindow))),
                    Sum(Severity(FirstN(coll, TrackerWindow))),
                    Len(FirstN(coll, TrackerWindow)))

\* AttackPatternAnalyzer.analyze_temporal_patterns, "escalation_detected":
\* from 3 incidents on, the mean severity of the last 5 is greater than 1.2
\* times the mean severity of the first 5.
escalation_detected(coll) ==
    /\ Len(coll) >= 3
    /\ FloatExceeds(Sum(Severity(LastN(coll, AnalyzerWindow))),
                    Sum(Severity(FirstN(coll, AnalyzerWindow))),
                    Len(FirstN(coll, AnalyzerWindow)))

\* incident.vector.name for the incidents of the analyzer.
VectorNameOf(coll) == [k \in 1..Len(coll) |-> AttackVectorNames[coll[k].vector]]

RECURSIVE KeysInOrder(_, _)
\* The keys of vector_counts in the order a dict keeps them: each name at
\* its first occurrence.
KeysInOrder(names, seen) ==
    IF names = <<>> THEN seen
    ELSE KeysInOrder(Tail(names),
                     IF \E k \in 1..Len(seen) : seen[k] = Head(names)
                     THEN seen ELSE Append(seen, Head(names)))

\* vector_counts[name]
VectorCount(names, name) == Cardinality({k \in 1..Len(names) : names[k] = name})

RECURSIVE MaxByKey_last(_, _, _)
\* max over the keys keeping the last key of the highest count.
MaxByKey_last(keys, names, best) ==
    IF keys = <<>> THEN best
    ELSE MaxByKey_last(Tail(keys), names,
                       IF VectorCount(names, Head(keys)) >= VectorCount(names, best)
                       THEN Head(keys) ELSE best)

RECURSIVE MaxByKey(_, _, _)
\* max(vector_counts, key=vector_counts.get): the keys are visited in dict
\* order and a key replaces the best so far only when its count is greater.
MaxByKey(keys, names, best) ==
    IF keys = <<>> THEN best
    ELSE MaxByKey(Tail(keys), names,
                  IF VectorCount(names, Head(keys)) > VectorCount(names, best)
                  THEN Head(keys) ELSE best)

\* AttackPatternAnalyzer.analyze_vector_patterns, "primary_vector", for a
\* collection that is not empty.
primary_vector(coll) ==
    LET names == VectorNameOf(coll)
        keys == KeysInOrder(names, <<>>)
    IN MaxByKey(Tail(keys), names, Head(keys))

\* The result of an analysis command.
Result(op, status, level, escalating, primary) ==
    [op |-> op, status |-> status, level |-> level, escalating |-> escalating,
     primary |-> primary]

\* IncidentTracker.record / CounterStrategyOrchestrator.record_incident: one
\* more incident in the collection under analysis.
CollectIncident(v, sev) ==
    /\ Len(incidents) < MaxAnalysed
    /\ IF impl = "precision"
       THEN /\ incidents' = IncidentTracker_record(incidents, now, v, <<ChA>>, sev)
            /\ snapshot' = IncidentTracker_save(incidents')
            /\ UNCHANGED analyzer
       ELSE LET i == Inc(now, AttackVector_byName(v), <<ChA>>, sev, MISSING)
            IN /\ incidents' = Append(incidents, i)
               /\ analyzer' = Append(analyzer, i)
               /\ snapshot' = save_incidents(incidents')
    /\ snapExists' = TRUE
    /\ now' = now + 1
    /\ ret' = Ret("record", "ok", TRUE, <<>>, 0)
    /\ UNCHANGED <<impl, procs, current_level, exists, file, torn, last_hash, created, failed, tamper>>

\* PrecisionToolkit.escalate / the legal position of the orchestrator.
Assess ==
    /\ ret' = Result("assess", "ok",
                     IF impl = "precision" THEN assess_escalation(incidents)
                     ELSE assess_current_position(current_level, incidents),
                     FALSE, "")
    /\ UNCHANGED <<impl, procs, current_level, exists, file, torn, last_hash, now, created, failed, tamper,
                   incidents, analyzer, snapExists, snapshot>>

\* IncidentTracker.analyze / the temporal and the vector patterns of
\* AttackPatternAnalyzer, as generate_pattern_report calls them.  An empty
\* collection gets the result without an escalation key.
Analyze ==
    /\ ret' = IF impl = "precision"
              THEN IF incidents = <<>>
                   THEN Result("analyze", "empty", 0, FALSE, "")
                   ELSE Result("analyze", "ok", 0, IncidentTracker_escalating(incidents), "")
              ELSE IF analyzer = <<>>
                   THEN Result("analyze", "empty", 0, FALSE, "")
                   ELSE Result("analyze", "ok", 0, escalation_detected(analyzer),
                               primary_vector(analyzer))
    /\ UNCHANGED <<impl, procs, current_level, exists, file, torn, last_hash, now, created, failed, tamper,
                   incidents, analyzer, snapExists, snapshot>>

\* PrecisionToolkit.patterns: prints analysis['sophistication'] and
\* analysis['escalating'], keys the result for an empty collection lacks.
Patterns ==
    /\ impl = "precision"
    /\ ret' = IF incidents = <<>>
              THEN Result("patterns", "KeyError", 0, FALSE, "")
              ELSE Result("patterns", "ok", 0, IncidentTracker_escalating(incidents), "")
    /\ UNCHANGED <<impl, procs, current_level, exists, file, torn, last_hash, now, created, failed, tamper,
                   incidents, analyzer, snapExists, snapshot>>

\* The response statuses a caller reports.
Responses == {"pending", "ignored"}

\* LegalEscalation.recommend_escalation: "escalate" and "reasoning", one
\* string for each `if` that fired, in the order of the code.
recommend_escalation(level, coll, current_response) ==
    LET pattern == Len(coll) >= 3 /\ level = 1
        severe == \E k \in 1..Len(coll) : coll[k].severity >= 8
        ignored == current_response = "ignored" /\ level = 2
    IN [escalate |-> pattern \/ severe \/ ignored,
        reasoning |-> (IF pattern THEN <<"pattern">> ELSE <<>>)
                      \o (IF severe THEN <<"severity">> ELSE <<>>)
                      \o (IF ignored THEN <<"ignored">> ELSE <<>>)]

\* The escalation recommendation of the orchestrator's LegalEscalation.
Recommend(current_response) ==
    /\ impl = "logger"
    /\ LET r == recommend_escalation(current_level, incidents, current_response)
       IN /\ ret' = [op |-> "recommend", status |-> "ok", response |-> current_response,
                     escalate |-> r.escalate, reasoning |-> r.reasoning]
          /\ current_level' = LegalEscalation_level_after(current_level, r.escalate)
    /\ UNCHANGED <<impl, procs, exists, file, torn, last_hash, now, created, failed, tamper,
                   incidents, analyzer, snapExists, snapshot>>

InitAnalysis == InitStore /\ ~exists

NextAnalysis ==
    \/ \E x \in AnalysisInputs : CollectIncident(x.vector, x.severity)
    \/ Assess
    \/ Analyze
    \/ Patterns
    \/ \E r \in Responses : Recommend(r)

SpecAnalysis == InitAnalysis /\ [][NextAnalysis]_vars

\* ------------------------------------------------- analysis of the vectors

\* Most incidents a collection analysed for its vectors holds.
MaxVectors == 5

\* The vectors of the incidents collected for the vector analysis.
VectorKinds ==
    {"SURVEILLANCE", "HARASSMENT", "REPUTATION",
     "INSTITUTIONAL", "PROXY_HARASSMENT", "INFORMATION_WARFARE"}

\* len(set(i.vector for i in incidents)) / len(vector_counts) / len(vectors)
DistinctVectors(coll) == Cardinality({coll[k].vector : k \in 1..Len(coll)})

\* analyze_vector_patterns, "multi_vector_attack": len(vector_counts) > 3
multi_vector_attack(coll) == DistinctVectors(coll) > 3

\* IncidentTracker.analyze, "multi_vector": len(vectors) >= 3
IncidentTracker_multi_vector(coll) == DistinctVectors(coll) >= 3

\* Some incident of the analyzer has the vector of this name.
HasVector(coll, name) ==
    \E k \in 1..Len(coll) : coll[k].vector = AttackVector_byName(name)

\* _assess_campaign_sophistication, "sophistication_score": 3 for 5 or more
\* distinct vectors, else 2 for 3 or more; 2 each for an institutional, a
\* proxy and an information-warfare incident.
sophistication_score(coll) ==
    (IF DistinctVectors(coll) >= 5 THEN 3
     ELSE IF DistinctVectors(coll) >= 3 THEN 2 ELSE 0)
    + (IF HasVector(coll, "INSTITUTIONAL") THEN 2 ELSE 0)
    + (IF HasVector(coll, "PROXY_HARASSMENT") THEN 2 ELSE 0)
    + (IF HasVector(coll, "INFORMATION_WARFARE") THEN 2 ELSE 0)

\* _assess_campaign_sophistication, levels: the bands in dict order.
LevelBands ==
    << [low |-> 0, high |-> 2, level |-> "LOW"],
       [low |-> 3, high |-> 5, level |-> "MEDIUM"],
       [low |-> 6, high |-> 8, level |-> "HIGH"],
       [low |-> 9, high |-> 12, level |-> "SEVERE"] >>

\* The level with the upper end of a band left out: low <= score < high.
sophistication_level_open_bands(score) ==
    IF \E b \in 1..Len(LevelBands) :
            LevelBands[b].low <= score /\ score < LevelBands[b].high
    THEN LevelBands[CHOOSE b \in 1..Len(LevelBands) :
            /\ LevelBands[b].low <= score /\ score < LevelBands[b].high
            /\ \A c \in 1..(b - 1) :
                 ~(LevelBands[c].low <= score /\ score < LevelBands[c].high)].level
    ELSE "UNKNOWN"

\* _assess_campaign_sophistication, "level": the first band with
\* low <= score <= high, "UNKNOWN" when there is none.
sophistication_level(score) ==
    IF \E b \in 1..Len(LevelBands) :
            LevelBands[b].low <= score /\ score <= LevelBands[b].high
    THEN LevelBands[CHOOSE b \in 1..Len(LevelBands) :
            /\ LevelBands[b].low <= score /\ score <= LevelBands[b].high
            /\ \A c \in 1..(b - 1) :
                 ~(LevelBands[c].low <= score /\ score <= LevelBands[c].high)].level
    ELSE "UNKNOWN"

\* IncidentTracker.record / CounterStrategyOrchestrator.record_incident with
\* the default severity: one more incident for the vector analysis.
CollectVector(v) ==
    /\ Len(incidents) < MaxVectors
    /\ IF impl = "precision"
       THEN /\ incidents' = IncidentTracker_record(incidents, now, v, <<ChA>>, DefaultSeverity)
            /\ snapshot' = IncidentTracker_save(incidents')
            /\ UNCHANGED analyzer
       ELSE LET i == Inc(now, AttackVector_byName(v), <<ChA>>, DefaultSeverity, MISSING)
            IN /\ incidents' = Append(incidents, i)
               /\ analyzer' = Append(analyzer, i)
               /\ snapshot' = save_incidents(incidents')
    /\ snapExists' = TRUE
    /\ now' = now + 1
    /\ ret' = Ret("record", "ok", TRUE, <<>>, 0)
    /\ UNCHANGED <<impl, procs, current_level, exists, file, torn, last_hash, created, failed, tamper>>

\* The vector analysis of a collection that is not empty:
\* IncidentTracker.analyze, or analyze_vector_patterns of the analyzer.
AnalyzeVectors ==
    /\ incidents # <<>>
    /\ ret' = [op |-> "vectors", status |-> "ok",
               multi_vector |-> IF impl = "precision"
                                THEN IncidentTracker_multi_vector(incidents)
                                ELSE multi_vector_attack(analyzer)]
    /\ UNCHANGED <<impl, procs, current_level, exists, file, torn, last_hash, now, created, failed, tamper,
                   incidents, analyzer, snapExists, snapshot>>

\* AttackPatternAnalyzer._assess_campaign_sophistication
AssessCampaign ==
    /\ impl = "logger"
    /\ ret' = [op |-> "campaign", status |-> "ok",
               score |-> sophistication_score(analyzer),
               level |-> sophistication_level(sophistication_score(analyzer))]
    /\ UNCHANGED <<impl, procs, current_level, exists, file, torn, last_hash, now, created, failed, tamper,
                   incidents, analyzer, snapExists, snapshot>>

NextVectors ==
    \/ \E v \in VectorKinds : CollectVector(v)
    \/ AnalyzeVectors
    \/ AssessCampaign

SpecVectors == InitAnalysis /\ [][NextVectors]_vars

\* ------------------------------------------------------------ ledger claims

\* The lines verify and count read.
Lines == FileLines(file, torn)

\* C1: after any sequence of appends through one ledger object, with no
\* failed write and no outside edit, verify returns (true, []).
C1_UntamperedChainVerifies ==
    (ret.op = "verify" /\ tamper.op = "none" /\ ~failed)
        => (ret.status = "ok" /\ ret.valid /\ ret.errors = <<>>)

\* C2: after one character of the description of one line is changed,
\* verify reports TamperDetected for that line and no error for another line.
C2_FlipReportedOnThatLineOnly ==
    (ret.op = "verify" /\ tamper.op = "flip")
        => /\ ret.status = "ok"
           /\ Err(tamper.line, "TamperDetected") \in Range(ret.errors)
           /\ \A e \in Range(ret.errors) : e.line = tamper.line

\* Line i of the file does not link to the line before it (genesis for line 1).
BrokenAt(i) ==
    file[i].prev_hash # (IF i = 1 THEN Genesis(impl) ELSE file[i - 1].hash)

HasBroken == \E i \in 1..Len(file) : BrokenAt(i)

FirstBroken ==
    CHOOSE i \in 1..Len(file) : BrokenAt(i) /\ \A j \in 1..(i - 1) : ~BrokenAt(j)

\* C3: after a line is deleted or the lines are reordered, verify reports
\* ChainBreak at the first line that no longer links to the line now before
\* it; after a reordering there is such a line, and after the deletion of a
\* line that was not the last it is the line that followed the deleted one.
C3_GapReportedAsChainBreak ==
    (ret.op = "verify" /\ tamper.op \in {"delete", "reorder"})
        => /\ ret.status = "ok"
           /\ (tamper.op = "reorder" => HasBroken)
           /\ (tamper.op = "delete" /\ tamper.line <= Len(file)
                  => HasBroken /\ FirstBroken = tamper.line)
           /\ (HasBroken => Err(FirstBroken, "ChainBreak") \in Range(ret.errors))

\* C3 witness: a line between two others was deleted and verify reported
\* ChainBreak at the line that followed it.
C3_Witness ==
    /\ ret.op = "verify"
    /\ tamper.op = "delete"
    /\ 1 < tamper.line /\ tamper.line <= Len(file)
    /\ Err(tamper.line, "ChainBreak") \in Range(ret.errors)

\* C4: after the value of a field of a line is changed, or a field is added
\* to it, with the stored hash kept, verify reports TamperDetected for that line.
C4_HashCoversEveryField ==
    (ret.op = "verify" /\ tamper.op \in {"flip", "change", "addfield"})
        => /\ ret.status = "ok"
           /\ Err(tamper.line, "TamperDetected") \in Range(ret.errors)

\* C5: verify returns a (valid, errors) pair for every content of the file,
\* having examined every line.
C5_VerifyNeverHalts ==
    ret.op = "verify" => (ret.status = "ok" /\ ret.n = Len(Lines))

\* C6: a successful append adds one line at the end and leaves the lines the
\* file held unchanged; with no failed write and no outside edit the file
\* holds the entries in the order they were created.
C6_AppendOnly ==
    [][ (ret'.op = "append" /\ ret'.status = "ok")
          => /\ Len(file') = Len(file) + 1
             /\ SubSeq(file', 1, Len(file)) = file
             /\ (~failed' /\ tamper'.op = "none" => file' = created') ]_vars

\* C6 witness: three appends were made and the file holds them in order.
C6_Witness ==
    /\ ret.op = "append" /\ ret.status = "ok"
    /\ Len(created) = 3
    /\ file = created

\* C7: an append of EvidenceLogger whose write fails ends in an I/O error,
\* returns no entry and leaves the cursor as it was; every entry appended
\* later links to the last entry that was appended successfully.
C7_FailedWriteKeepsCursor ==
    [][ /\ (impl = "logger" /\ ret'.op = "append" /\ ret'.status = "IOError")
            => (last_hash' = last_hash /\ created' = created)
        /\ (impl = "logger" /\ ret'.op = "append" /\ ret'.status = "ok")
            => created'[Len(created')].prev_hash =
                   (IF created = <<>> THEN GENESIS ELSE created[Len(created)].hash) ]_vars

\* C7 witness: a write of the logger failed and a later append succeeded.
C7_Witness ==
    /\ impl = "logger"
    /\ failed
    /\ ret.op = "append" /\ ret.status = "ok"
    /\ Len(created) >= 2
    /\ \E i \in 1..Len(file) : file[i].kind = "garbage"

\* The chain file is absent or holds no entry.
NoEntries == ~exists \/ NonBlank(Lines) = <<>>

\* C8: on a chain file that is absent or holds no entries verify returns
\* (true, []) and count returns 0.
C8_EmptyChainIsValid ==
    /\ (ret.op = "verify" /\ NoEntries)
          => (ret.status = "ok" /\ ret.valid /\ ret.errors = <<>>)
    /\ (ret.op = "count" /\ NoEntries) => ret.n = 0

\* C8 witness: verify ran on an absent chain file.
C8_Witness == ret.op = "verify" /\ ~exists /\ ret.valid

\* The lines that parse as a record mapping with a hash field.
RecordsWithHash == SelectSeq(Lines, LAMBDA l : l.kind = "rec" /\ l.hash # MISSING)

\* C9 as stated: count returns the number of lines that parse as a record
\* mapping with a hash field; a line that does not decode, or decodes
\* without a hash field, is left out.
C9_CountOmitsCorruptLines ==
    (ret.op = "count" /\ impl \in {"precision", "zelensky"})
        => ret.n = Len(RecordsWithHash)

\* C9: count returns the number of lines of the chain file that are not
\* blank, 0 when the file is absent; a line that does not decode, or decodes
\* without a hash field, is counted like any other.
C9_CountIsNonBlankLines ==
    ret.op = "count"
        => ret.n = (IF exists
                    THEN Cardinality({i \in 1..Len(Lines) : Lines[i].kind # "blank"})
                    ELSE 0)

\* C9 witness: count ran on a chain file of EvidenceChain holding a line that
\* does not decode, and counted it.
C9_Witness ==
    /\ ret.op = "count"
    /\ impl = "precision"
    /\ \E i \in 1..Len(Lines) : Lines[i].kind = "garbage"
    /\ ret.n = Len(Lines)
    /\ ret.n > Len(RecordsWithHash)

\* C15: a verify command ends with a non-zero exit status when verify
\* reports errors and with status zero when the chain is valid.
C15_VerifyCommandExitStatus ==
    ret.op = "verify_command"
        => /\ (ret.errors # <<>> => ret.n # 0)
           /\ (ret.status = "ok" /\ ret.valid => ret.n = 0)

\* Process p appends its line in this step.
WriteStep(p) ==
    /\ procs[p].pc = "ready"
    /\ procs'[p] # procs[p]
    /\ Len(file') = Len(file) + 1

\* Both processes have read the same last hash and neither has written since.
BothRead ==
    /\ procs[1].pc = "ready" /\ procs[2].pc = "ready"
    /\ procs[1].prev = procs[2].prev

\* Two lines of the file that declare the same prev_hash.
SamePrev(i, j) == i < j /\ file[i].prev_hash = file[j].prev_hash

\* C16: nothing keeps two appends to one chain file apart.  A process writes
\* its line with the last hash it read, and the write of one process leaves
\* what the other has read as it is; so when both have read before either
\* writes, the other still holds the hash the first has just used.  Verify
\* reports ChainBreak at every line that declares the prev_hash of an
\* earlier line, on a file nobody edited.
C16_InterleavedAppendsBreakChain ==
    /\ [][ \A p \in Procs : WriteStep(p)
             => /\ file'[Len(file')].prev_hash = procs[p].prev
                /\ \A q \in Procs \ {p} : procs'[q] = procs[q]
                /\ (BothRead => \A q \in Procs \ {p} :
                        procs'[q].pc = "ready"
                        /\ procs'[q].prev = file'[Len(file')].prev_hash) ]_vars
    /\ [](ret.op = "verify"
            => /\ ret.status = "ok"
               /\ \A i, j \in 1..Len(file) :
                    SamePrev(i, j) => Err(j, "ChainBreak") \in Range(ret.errors))

\* C16 witness: two processes appended one line each with the same
\* prev_hash to a file nobody edited, and verify reported ChainBreak at the
\* second line.
C16_Witness ==
    /\ ret.op = "verify"
    /\ tamper.op = "none" /\ ~failed
    /\ Len(file) = 2
    /\ SamePrev(1, 2)
    /\ file[1].prev_hash = Genesis(impl)
    /\ Err(2, "ChainBreak") \in Range(ret.errors)
    /\ ~ret.valid

C18_CorruptLineDoesNotBreakChain ==
    (ret.op = "verify" /\ tamper.op = "corrupt" /\ tamper.field = "garbage")
        => /\ ret.status = "ok"
           /\ Err(tamper.line, "CorruptRecord") \in Range(ret.errors)
           /\ \A e \in Range(ret.errors) : e.kind # "ChainBreak"

\* verify on the file as it is, and as it is after the step.
VerifyNow == VerifyOf(impl, exists, FileLines(file, torn))
VerifyNext == VerifyOf(impl, exists', FileLines(file', torn'))

\* The hash of the last line of the file, genesis for an empty file.
LastRemaining == IF file = <<>> THEN Genesis(impl) ELSE file[Len(file)].hash

\* C25: removing lines from the end of a chain that verify accepts leaves a
\* file verify accepts with no error, and an append made after the removal
\* links to the last remaining line and leaves a file verify accepts.
C25_PrefixStaysValidAndAppendable ==
    /\ [][ (tamper.op = "none" /\ tamper'.op = "truncate" /\ VerifyNow.valid)
            => (VerifyNext.status = "ok" /\ VerifyNext.valid
                /\ VerifyNext.errors = <<>>) ]_vars
    /\ [][ (tamper.op = "truncate" /\ Len(file') = Len(file) + 1 /\ VerifyNow.valid)
            => (file'[Len(file')].prev_hash = LastRemaining /\ VerifyNext.valid) ]_vars

\* The append of process p runs with no other append inside it.  An append
\* of EvidenceLogger is one step of an object that is open; an append of the
\* other two ledgers begins with its read of the file, and no line was
\* written since when the file still ends with the hash it read.
Sequential(p) == impl = "logger" \/ procs[p].prev = ReadLastHash

\* C26: with two ledger objects on one chain file whose appends run one
\* after another, every appended entry's prev_hash is the hash of the line
\* before it in the file (genesis for the first), and verify returns
\* (true, []).
C26_SequentialAppendsKeepChain ==
    /\ [][ \A p \in Procs : (WriteStep(p) /\ Sequential(p))
              => file'[Len(file')].prev_hash = LastRemaining ]_vars
    /\ [](ret.op = "verify"
            => (ret.valid <=> \A i \in 1..Len(file) :
                    file[i].prev_hash = (IF i = 1 THEN Genesis(impl) ELSE file[i - 1].hash)))

\* C27: on every chain file the report of the legal document generator
\* states VALID and untampered exactly when EvidenceLogger.verify_chain
\* returns valid = true for the file.
C27_ReportAgreesWithVerify ==
    (ret.op = "report" /\ exists) => (ret.valid <=> verify_chain(exists, Lines).valid)

\* ------------------------------------------------------ record store claims


\* The closed category set of the store in use.
KnownVector(v) ==
    IF impl = "precision" THEN v \in VectorNames ELSE v \in AttackVectors

\* C10: record stores no incident whose vector is outside the closed set,
\* and a call that rejects its vector leaves the in-memory collection and
\* the snapshot file as they were.
C10_RecordRejectsUnknownVector ==
    [][ /\ (ret'.op = "record" /\ ret'.status = "rejected")
            => UNCHANGED <<incidents, snapExists, snapshot>>
        /\ (ret'.op = "record" /\ ret'.status = "ok")
            => KnownVector(incidents'[Len(incidents')].vector) ]_vars

\* C11: after every record call that stores an incident, the snapshot file
\* holds the incidents it held before the call, in the same order, followed
\* by the new incident; so it holds every incident recorded so far exactly
\* once, in recording order, whichever store object made the call.
C11_SnapshotKeepsEveryIncident ==
    [][ (ret'.op = "record" /\ ret'.status = "ok")
          => /\ snapExists'
             /\ Len(snapshot') = Len(snapshot) + 1
             /\ SubSeq(snapshot', 1, Len(snapshot)) = snapshot
             /\ snapshot'[Len(snapshot')].timestamp = now ]_vars

\* The store object has just loaded the snapshot file and holds the
\* incidents of the file and no other.
JustLoaded ==
    /\ ret.op = "load"
    /\ snapExists
    /\ Len(incidents) = Len(snapshot)

OrchestratorLoaded == impl = "logger" /\ ret.op = "load"

\* The content of the snapshot file as a fresh collection, in file order.
FileContent == load_incidents(<<>>, snapExists, snapshot)

\* C28: after load_incidents the collection of the orchestrator and that of
\* its pattern analyzer each equal the content of the snapshot file in file
\* order, however often it was called, and a record that follows writes a
\* snapshot with one more incident than the file held.
C28_LoadYieldsFileContent ==
    /\ [](OrchestratorLoaded => (incidents = FileContent /\ analyzer = FileContent))
    /\ [][ (OrchestratorLoaded /\ ret'.op = "record" /\ ret'.status = "ok")
            => Len(snapshot') = Len(snapshot) + 1 ]_vars

\* ---------------------------------------------------------- analysis claims

\* The threshold of an escalation level is met by the collection.
ThresholdMet(l) ==
    CASE l = 1 -> TRUE
      [] l = 2 -> Len(incidents) >= 3
      [] l = 3 -> Len(incidents) >= 5
      [] l = 4 -> \E i \in 1..Len(incidents) : incidents[i].severity >= 8
      [] l = 5 -> Len(incidents) >= 10
      [] OTHER -> FALSE

\* C13: the level assess returns is the highest level whose threshold is
\* met: 1 for an empty collection, at least 2 from 3 incidents, at least 3
\* from 5, at least 4 when an incident has severity 8 or more, at least 5
\* from 10 incidents.
C13_AssessReturnsHighestMetLevel ==
    ret.op = "assess"
        => /\ ThresholdMet(ret.level)
           /\ \A l \in 1..5 : ThresholdMet(l) => ret.level >= l

\* C14: with fewer than 3 incidents, none included, the pattern analysis
\* and the command that prints it end without an error and report no
\* escalation.
C14_FewIncidentsNoEscalation ==
    (ret.op \in {"analyze", "patterns"} /\ Len(incidents) < 3)
        => (ret.status \in {"ok", "empty"} /\ ~ret.escalating)

\* The collection the analysis reads, its window, and the severity sums of
\* the earliest and the most recent window.
Analysed == IF impl = "precision" THEN incidents ELSE analyzer
Window == IF impl = "precision" THEN TrackerWindow ELSE AnalyzerWindow
EarlySum == Sum(Severity(FirstN(Analysed, Window)))
RecentSum == Sum(Severity(LastN(Analysed, Window)))

\* C19: for at least 3 incidents the analysis reports an escalation exactly
\* when the mean severity of the most recent window exceeds 1.2 times the
\* mean severity of the earliest window (the two windows have the same
\* length); it reports one for the severities 3, 3, 3, 9, 9, 9.
C19_EscalationExactlyAboveMultiplier ==
    (ret.op = "analyze" /\ Len(Analysed) >= 3)
        => /\ ret.status = "ok"
           /\ ret.escalating <=> (10 * RecentSum > 12 * EarlySum)
           /\ (Severity(Analysed) = <<3, 3, 3, 9, 9, 9>> => ret.escalating)

\* The number of incidents of a vector name in the analyzer's collection,
\* and the position of its first incident.
CountOf(name) == Cardinality({k \in 1..Len(analyzer) : AttackVectorNames[analyzer[k].vector] = name})
FirstOf(name) ==
    CHOOSE k \in 1..Len(analyzer) :
        /\ AttackVectorNames[analyzer[k].vector] = name
        /\ \A j \in 1..(k - 1) : AttackVectorNames[analyzer[j].vector] # name

UsedVectors == {AttackVectorNames[analyzer[k].vector] : k \in 1..Len(analyzer)}

\* C20: for a collection that is not empty primary_vector is a vector of
\* the highest incident count, and among the vectors of that count the one
\* whose first incident comes earliest.
C20_PrimaryVectorIsFirstMode ==
    (ret.op = "analyze" /\ impl = "logger" /\ analyzer # <<>>)
        => /\ ret.primary \in UsedVectors
           /\ \A v \in UsedVectors : CountOf(v) <= CountOf(ret.primary)
           /\ \A v \in UsedVectors :
                CountOf(v) = CountOf(ret.primary) => FirstOf(ret.primary) <= FirstOf(v)

\* C20 witness: two vectors share the highest count, the later incident
\* belongs to the vector reported, whose first incident came first.
C20_Witness ==
    /\ ret.op = "analyze" /\ impl = "logger"
    /\ Len(analyzer) = 4
    /\ CountOf("SURVEILLANCE") = 2 /\ CountOf("HARASSMENT") = 2
    /\ FirstOf("SURVEILLANCE") = 1
    /\ AttackVectorNames[analyzer[4].vector] = "HARASSMENT"
    /\ ret.primary = "SURVEILLANCE"

\* The triggers of an escalation that fire for the collection and the
\* response the caller reported.
TriggersFired(response) ==
    (IF Len(incidents) >= 3 THEN {"pattern"} ELSE {})
    \cup (IF \E k \in 1..Len(incidents) : incidents[k].severity >= 8
          THEN {"severity"} ELSE {})
    \cup (IF response = "ignored" THEN {"ignored"} ELSE {})

\* C23: recommend returns escalate = true exactly when a trigger fires (3
\* or more incidents, a severity of 8 or more, complaints reported as
\* ignored), and its reasoning holds one string for each trigger that
\* fired, so with the status "ignored" the one about ignored complaints.
C23_RecommendFollowsTriggers ==
    ret.op = "recommend"
        => /\ ret.escalate <=> TriggersFired(ret.response) # {}
           /\ Range(ret.reasoning) = TriggersFired(ret.response)
           /\ Len(ret.reasoning) = Cardinality(TriggersFired(ret.response))

\* A step of the escalation ladder: an assessment or a recommendation.
LadderCall == Assess \/ \E r \in Responses : Recommend(r)

\* The level a first assessment of the collection returns, on an assessor
\* just constructed.
FirstLevel(coll) ==
    IF impl = "precision" THEN assess_escalation(coll) ELSE LegalEscalation_current_level

\* C24: assess and recommend leave the stored level, the incident
\* collections and every file unchanged, and return for a collection what
\* a first call on a new assessor returns for it.
C24_LadderKeepsNoRatchet ==
    [][LadderCall
         => /\ current_level' = current_level
            /\ incidents' = incidents /\ analyzer' = analyzer
            /\ snapshot' = snapshot /\ snapExists' = snapExists
            /\ file' = file /\ exists' = exists /\ torn' = torn
            /\ ret'.op = "assess" => ret'.level = FirstLevel(incidents)
            /\ ret'.op = "recommend"
                 => LET r == recommend_escalation(LegalEscalation_current_level,
                                                  incidents, ret'.response)
                    IN ret'.escalate = r.escalate /\ ret'.reasoning = r.reasoning]_vars

\* A recommendation to escalate was returned and the level is the initial one.
C24_Witness ==
    /\ ret.op = "recommend" /\ ret.escalate
    /\ Len(incidents) >= 3
    /\ current_level = LegalEscalation_current_level

\* An incident was recorded at the end of the tracker's collection.
Extended ==
    /\ impl = "precision"
    /\ Len(incidents') = Len(incidents) + 1
    /\ SubSeq(incidents', 1, Len(incidents)) = incidents

\* C29: the level assess_escalation returns never decreases when an
\* incident is added to the end of the collection, and every level it
\* returns is one of the ladder, 1 to the number of its levels.
C29_LevelNeverDecreases ==
    /\ [][ Extended
            => /\ assess_escalation(incidents') >= assess_escalation(incidents)
               /\ assess_escalation(incidents') \in 1..EscalationLadderLevels ]_vars
    /\ []((ret.op = "assess" /\ impl = "precision")
            => (ret.level = assess_escalation(incidents)
                /\ ret.level \in 1..EscalationLadderLevels))

\* C29 witness: five incidents, the first of severity 8 or more, assessed at
\* level 4, the level the one incident alone has.
C29_Witness ==
    /\ ret.op = "assess" /\ impl = "precision"
    /\ Len(incidents) = 5
    /\ incidents[1].severity >= 8
    /\ ret.level = 4
    /\ assess_escalation(SubSeq(incidents, 1, 1)) = 4

\* C30: in AttackPatternAnalyzer the recent window is the last 5 and the
\* earliest window the first 5 incidents; for 3, 4 or 5 incidents the two
\* windows are the same incidents and escalation_detected is false, and it
\* is true only for 6 incidents or more.
C30_NoEscalationBeforeSixth ==
    (ret.op = "analyze" /\ impl = "logger" /\ ret.status = "ok")
        => /\ (Len(analyzer) \in 3..5
                 => /\ LastN(analyzer, 5) = analyzer
                    /\ FirstN(analyzer, 5) = analyzer
                    /\ ~ret.escalating)
           /\ (ret.escalating => Len(analyzer) >= 6)

\* C30 witness: five incidents of rising severity were analysed and no
\* escalation was reported.
C30_Witness ==
    /\ ret.op = "analyze" /\ impl = "logger" /\ ret.status = "ok"
    /\ Severity(analyzer) = <<3, 3, 3, 9, 9>>
    /\ ~ret.escalating

\* ------------------------------------------------------------ vector claims

\* C21: multi_vector is true exactly when the collection holds more than 3
\* distinct vectors: true for 5 distinct vectors, false for exactly 3.
C21_MultiVectorAboveThree ==
    ret.op = "vectors" => (ret.multi_vector <=> DistinctVectors(incidents) > 3)

\* The names of the vectors of the analyzer's incidents.
NamesUsed == {AttackVectorNames[analyzer[k].vector] : k \in 1..Len(analyzer)}

\* The weight of each indicator that fired.
DiversityWeight ==
    IF Cardinality(NamesUsed) >= 5 THEN 3
    ELSE IF Cardinality(NamesUsed) >= 3 THEN 2 ELSE 0
PresenceWeight(name) == IF name \in NamesUsed THEN 2 ELSE 0

\* C22: the sophistication score is the sum of the weights of the
\* indicators that fired, and the level is the band the score lies in:
\* 0-2 low, 3-5 medium, 6-8 high, 9 and above severe; never unknown.
C22_ScoreIsWeightSumAndBanded ==
    ret.op = "campaign"
        => /\ ret.score = DiversityWeight + PresenceWeight("INSTITUTIONAL")
                          + PresenceWeight("PROXY_HARASSMENT")
                          + PresenceWeight("INFORMATION_WARFARE")
           /\ ret.level = (CASE ret.score <= 2 -> "LOW"
                             [] ret.score \in 3..5 -> "MEDIUM"
                             [] ret.score \in 6..8 -> "HIGH"
                             [] OTHER -> "SEVERE")
           /\ ret.level # "UNKNOWN"

\* C22 witness: five distinct vectors with the three weighted ones among
\* them give the score 9, level severe.
C22_Witness ==
    /\ ret.op = "campaign"
    /\ Cardinality(NamesUsed) = 5
    /\ {"INSTITUTIONAL", "PROXY_HARASSMENT", "INFORMATION_WARFARE"} \subseteq NamesUsed
    /\ ret.score = 9
    /\ ret.level = "SEVERE"

====
